---------------------------- MODULE Spec2Model ----------------------------
(***************************************************************************)
(* Model of the MATSim event extractor of simul_diagnostic:                *)
(*   - the awk program (BEGIN / two pattern rules / END), run as a single  *)
(*     instance over the whole event log ("sequential mode");              *)
(*   - the shell pipeline                                                  *)
(*       echo header > $2 && zcat $1 | parallel -q --pipe awk '...' >> $2  *)
(*     ("parallel mode").                                                  *)
(* Lines, fields and output rows are character strings; splitting on the   *)
(* field separator, the pattern match and the printf conversions are       *)
(* computed character by character.                                        *)
(***************************************************************************)
EXTENDS Integers, Sequences, FiniteSets, TLC

(***************************************************************************)
(* Bounds of the model.                                                    *)
(***************************************************************************)
MaxLines == 2

(***************************************************************************)
(* Text helpers.                                                           *)
(***************************************************************************)
Quote == "\""

CharAt(s, i) == SubSeq(s, i, i)

Digits == "0123456789"

IsDigit(c) == \E d \in 1..10 : CharAt(Digits, d) = c

DigitVal(c) == (CHOOSE d \in 1..10 : CharAt(Digits, d) = c) - 1

Range(s) == {s[i] : i \in DOMAIN s}

Count(s, x) == Cardinality({i \in DOMAIN s : s[i] = x})

SubBag(s, t) == \A x \in Range(s) : Count(s, x) <= Count(t, x)

SameBag(s, t) == SubBag(s, t) /\ SubBag(t, s)

(***************************************************************************)
(* awk record handling: FS = "\"" splits a record into fields; a field     *)
(* past NF reads as the empty string.                                      *)
(***************************************************************************)
\* the least position in a non-empty set of positions
First(positions) == CHOOSE i \in positions : \A k \in positions : i <= k

RECURSIVE SplitFrom(_, _)
\* the fields of line from position start on: one field up to the next
\* separator, then the fields after it
SplitFrom(line, start) ==
    LET seps == {i \in start..Len(line) : CharAt(line, i) = Quote}
    IN  IF seps = {} THEN <<SubSeq(line, start, Len(line))>>
        ELSE <<SubSeq(line, start, First(seps) - 1)>> \o SplitFrom(line, First(seps) + 1)

Fields(line) == IF line = "" THEN <<>> ELSE SplitFrom(line, 1)

NF(line) == Len(Fields(line))

Field(line, k) == LET f == Fields(line) IN IF k <= Len(f) THEN f[k] ELSE ""

\* /pat/ with a pattern free of regex metacharacters: pat occurs in $0.
Matches(line, pat) ==
    \E i \in 1..(Len(line) - Len(pat) + 1) : SubSeq(line, i, i + Len(pat) - 1) = pat

EnteredPattern == "\"entered link\""

LeftPattern == "\"left link\""

(***************************************************************************)
(* awk string-to-number conversion and the %f / %d conversions of printf.  *)
(* A number is kept in millionths (the six decimals %f prints).  The       *)
(* conversion reads the longest numeric prefix: blanks, a sign, digits, a  *)
(* fraction; anything else reads as 0.  (Exponents and more than six       *)
(* decimals do not occur in the lines of the model.)                       *)
(***************************************************************************)
Million == 1000000

RECURSIVE SkipBlanks(_, _)
SkipBlanks(s, i) ==
    IF i <= Len(s) /\ CharAt(s, i) = " " THEN SkipBlanks(s, i + 1) ELSE i

RECURSIVE IntPart(_, _, _)
\* <<value of the digits from position i on, position after them>>
IntPart(s, i, acc) ==
    IF i <= Len(s) /\ IsDigit(CharAt(s, i))
    THEN IntPart(s, i + 1, acc * 10 + DigitVal(CharAt(s, i)))
    ELSE <<acc, i>>

RECURSIVE FracPart(_, _, _, _)
\* millionths contributed by the digits after the decimal point
FracPart(s, i, scale, acc) ==
    IF i <= Len(s) /\ IsDigit(CharAt(s, i))
    THEN FracPart(s, i + 1, scale \div 10, acc + DigitVal(CharAt(s, i)) * (scale \div 10))
    ELSE acc

StrToNum(s) ==
    LET b    == SkipBlanks(s, 1)
        neg  == b <= Len(s) /\ CharAt(s, b) = "-"
        pos  == b <= Len(s) /\ CharAt(s, b) = "+"
        d    == IF neg \/ pos THEN b + 1 ELSE b
        ip   == IntPart(s, d, 0)
        dot  == ip[2] <= Len(s) /\ CharAt(s, ip[2]) = "."
        fr   == IF dot THEN FracPart(s, ip[2] + 1, Million, 0) ELSE 0
        mag  == ip[1] * Million + fr
    IN  IF neg THEN 0 - mag ELSE mag

RECURSIVE NatToStr(_)
NatToStr(v) ==
    IF v < 10 THEN CharAt(Digits, v + 1)
    ELSE NatToStr(v \div 10) \o CharAt(Digits, (v % 10) + 1)

RECURSIVE PadLeft(_, _)
PadLeft(s, width) == IF Len(s) >= width THEN s ELSE PadLeft("0" \o s, width)

Abs(v) == IF v < 0 THEN 0 - v ELSE v

\* printf "%f"
FormatF(v) ==
    (IF v < 0 THEN "-" ELSE "")
        \o NatToStr(Abs(v) \div Million) \o "." \o PadLeft(NatToStr(Abs(v) % Million), 6)

\* printf "%d": truncation toward zero
FormatD(v) ==
    (IF v < 0 /\ Abs(v) >= Million THEN "-" ELSE "") \o NatToStr(Abs(v) \div Million)

\* printf "%f,%s,%d,%d\n", time, type, link_id, vehicle
FormatRow(time, type, link_id, vehicle) ==
    FormatF(StrToNum(time)) \o "," \o type \o ","
        \o FormatD(StrToNum(link_id)) \o "," \o FormatD(StrToNum(vehicle))

\* the row of the first four fields of a record
RowOfFirstFour(line) == FormatRow(Field(line, 1), Field(line, 2), Field(line, 3), Field(line, 4))

\* the row printed for a record: fields $2, $4, $6, $8
RowOf(line) == FormatRow(Field(line, 2), Field(line, 4), Field(line, 6), Field(line, 8))

Header == "time,type,link_id,vehicle"


(***************************************************************************)
(* The event-log lines the model draws its inputs from.                    *)
(***************************************************************************)
EnteredLine == "<event time=\"10.5\" type=\"entered link\" link=\"42\" vehicle=\"7\" />"

LeftLine == "<event time=\"12.0\" type=\"left link\" link=\"42\" vehicle=\"7\" />"

ArrivedLine == "<event time=\"13.0\" type=\"arrived\" link=\"42\" vehicle=\"7\" />"

\* the quoted text "entered link" in a field other than the type field
ModeLine == "<event time=\"14.0\" type=\"arrived\" link=\"3\" vehicle=\"8\" mode=\"entered link\" />"

\* both quoted texts on one line
BothLine == "<event time=\"15.0\" type=\"entered link\" link=\"5\" vehicle=\"9\" prev=\"left link\" />"

\* five quote-separated fields only
ShortLine == "123.5\"entered link\"42\"7\""

SampleLines == {EnteredLine, LeftLine, ArrivedLine, ModeLine, BothLine, ShortLine}

Inputs == UNION {[1..k -> SampleLines] : k \in 0..MaxLines}

AllowList == {"entered link", "left link"}

\* rows left in the output path by an earlier run
StaleRows == <<Header, "99.000000,entered link,1,1">>

VARIABLES
    input,      \* the lines of the event log
    \* ---- shell pipeline ----
    fs,         \* the file system: path -> file
    arg1,       \* $1
    arg2,       \* $2
    pc,         \* position of the script: "echo", "pipe", "done"
    zcat,       \* state of zcat $1: "idle", "ok", "failed"
    pipe,       \* decompressed lines not yet read by parallel
    jobs,       \* the jobs parallel has started, one per chunk
    exit_code,  \* exit status of the script
    \* ---- awk program ----
    events,     \* the array events: index -> [time, type, link_id, vehicle]
    n,          \* next free index of events
    NR,         \* number of records read
    stdout,     \* lines printed
    apc,        \* position of the awk program: "idle", "main", "done"
    run,        \* which run over the input this is (1 or 2)
    first_out,  \* what the first run printed (the script: left in $2)
    forin       \* the order in which this awk build walked the keys of events

shvars == <<fs, arg1, arg2, pc, zcat, pipe, jobs, exit_code>>

awkvars == <<events, n, NR, stdout, apc, run, first_out, forin>>

vars == <<input, shvars, awkvars>>

(***************************************************************************)
(* Shell pipeline.                                                         *)
(***************************************************************************)
InPath == "events.xml.gz"

OutPath == "events.csv"

Paths == {InPath, OutPath}

\* a file: its complete lines, and part, the bytes after the last newline
NoFile(w) == [kind |-> "none", lines |-> <<>>, part |-> "", r |-> FALSE, w |-> w]

GzipFile(lines, r) == [kind |-> "gzip", lines |-> lines, part |-> "", r |-> r, w |-> TRUE]

TextFile(lines) == [kind |-> "text", lines |-> lines, part |-> "", r |-> TRUE, w |-> TRUE]

\* what $1 may name: a readable archive, an unreadable one, nothing, or a
\* file that is not a gzip archive
InFiles(lines) == {GzipFile(lines, TRUE), GzipFile(lines, FALSE), NoFile(TRUE), TextFile(lines)}

\* what $2 may name: nothing yet, nothing in a directory that cannot be
\* written, or the output of an earlier run
OutFiles == {NoFile(TRUE), NoFile(FALSE), TextFile(StaleRows)}

\* the inline awk program: BEGIN {FS= "\""; RS="\n"}
\*   /"entered link"/ {printf "%f,%s,%d,%d\n", $2, $4, $6, $8}
InlineRule(line) == IF Matches(line, EnteredPattern) THEN <<RowOf(line)>> ELSE <<>>

RECURSIVE InlineAwk(_)
InlineAwk(chunk) ==
    IF chunk = <<>> THEN <<>> ELSE InlineRule(Head(chunk)) \o InlineAwk(Tail(chunk))

\* the variant whose workers print the header themselves
InlineAwkWithHeader(chunk) == <<Header>> \o InlineAwk(chunk)

\* the command each job runs on its chunk
Worker(chunk) == InlineAwk(chunk)

\* the file left by echo header >> $2, which keeps what the file held
AppendHeader(f) == TextFile(f.lines \o <<Header>>)

\* the file left by echo header > $2: the redirection truncates, whatever
\* the file held
WriteHeader(f) == TextFile(<<Header>>)

\* echo "time,type,link_id,vehicle" > $2
\* The redirection creates or truncates $2; when it cannot, the && list ends
\* with the failure status and the pipeline is not run.
Echo ==
    /\ pc = "echo"
    /\ IF fs[arg2].w
       THEN /\ fs' = [fs EXCEPT ![arg2] = WriteHeader(fs[arg2])]
            /\ pc' = "pipe"
            /\ UNCHANGED exit_code
       ELSE /\ pc' = "done"
            /\ exit_code' = 1
            /\ UNCHANGED fs
    /\ UNCHANGED <<input, arg1, arg2, zcat, pipe, jobs, awkvars>>

\* zcat $1: writes the decompressed lines to the pipe, or nothing when $1
\* cannot be opened or is not a gzip archive
Zcat ==
    /\ pc = "pipe"
    /\ zcat = "idle"
    /\ IF fs[arg1].kind = "gzip" /\ fs[arg1].r
       THEN zcat' = "ok" /\ pipe' = fs[arg1].lines
       ELSE zcat' = "failed" /\ pipe' = <<>>
    /\ UNCHANGED <<input, fs, arg1, arg2, pc, jobs, exit_code, awkvars>>

\* a split that loses the record following the block boundary
AfterBlockLosesRecord(stream, k) == SubSeq(stream, k + 2, Len(stream))

\* what is left of the stream after a block of k whole records is taken
AfterBlock(stream, k) == SubSeq(stream, k + 1, Len(stream))

\* parallel --pipe: the next block of whole records becomes the standard
\* input of a new job
Dispatch(k) ==
    /\ pc = "pipe"
    /\ zcat # "idle"
    /\ k \in 1..Len(pipe)
    /\ jobs' = Append(jobs, [chunk |-> SubSeq(pipe, 1, k), st |-> "queued", out |-> <<>>, sent |-> 0, status |-> 0])
    /\ pipe' = AfterBlock(pipe, k)
    /\ UNCHANGED <<input, fs, arg1, arg2, pc, zcat, exit_code, awkvars>>

\* a job runs awk on its chunk (awk ends with status 0); parallel keeps the
\* job's output apart
RunJob(j) ==
    /\ pc = "pipe"
    /\ j \in DOMAIN jobs
    /\ jobs[j].st = "queued"
    /\ jobs' = [jobs EXCEPT ![j].st = "ran", ![j].out = Worker(jobs[j].chunk)]
    /\ UNCHANGED <<input, fs, arg1, arg2, pc, zcat, pipe, exit_code, awkvars>>

\* the bytes a job printed: its rows, each ended by a newline
RECURSIVE Text(_)
Text(rows) == IF rows = <<>> THEN "" ELSE Head(rows) \o "\n" \o Text(Tail(rows))

\* bytes appended to a file: each newline completes a line
RECURSIVE WriteBytes(_, _)
WriteBytes(f, bytes) ==
    LET nls == {i \in 1..Len(bytes) : CharAt(bytes, i) = "\n"}
    IN  IF nls = {} THEN [f EXCEPT !.part = @ \o bytes]
        ELSE WriteBytes([f EXCEPT !.lines = Append(@, f.part \o SubSeq(bytes, 1, First(nls) - 1)),
                                  !.part = ""],
                        SubSeq(bytes, First(nls) + 1, Len(bytes)))

\* jobs' outputs printed as they come, with no grouping
MayPrintUngrouped(js, j) == TRUE

\* parallel groups output: it prints the output of one finished job at a
\* time, so no other job's output is being copied
MayPrint(js, j) == \A i \in DOMAIN js : i # j => js[i].st # "emitting"

\* parallel copies a finished job's output to its own standard output,
\* which >> $2 appends to the output file; the copy is one write, or a first
\* write of half the bytes
EmitJob(j) ==
    /\ pc = "pipe"
    /\ j \in DOMAIN jobs
    /\ jobs[j].st = "ran"
    /\ MayPrint(jobs, j)
    /\ LET bytes == Text(jobs[j].out)
       IN  \E c \in {Len(bytes) \div 2, Len(bytes)} :
              /\ jobs' = [jobs EXCEPT ![j].st = IF c = Len(bytes) THEN "emitted" ELSE "emitting",
                                      ![j].sent = c]
              /\ fs' = [fs EXCEPT ![arg2] = WriteBytes(@, SubSeq(bytes, 1, c))]
    /\ UNCHANGED <<input, arg1, arg2, pc, zcat, pipe, exit_code, awkvars>>

\* the second write of the copy: the rest of the job's output
EmitRest(j) ==
    /\ pc = "pipe"
    /\ j \in DOMAIN jobs
    /\ jobs[j].st = "emitting"
    /\ LET bytes == Text(jobs[j].out)
       IN  /\ jobs' = [jobs EXCEPT ![j].st = "emitted", ![j].sent = Len(bytes)]
           /\ fs' = [fs EXCEPT ![arg2] = WriteBytes(@, SubSeq(bytes, jobs[j].sent + 1, Len(bytes)))]
    /\ UNCHANGED <<input, arg1, arg2, pc, zcat, pipe, exit_code, awkvars>>

\* end of input and every job done: the status of the pipeline is the status
\* of its last command, parallel, which is the number of failed jobs
Finish ==
    /\ pc = "pipe"
    /\ zcat # "idle"
    /\ pipe = <<>>
    /\ \A j \in DOMAIN jobs : jobs[j].st = "emitted"
    /\ pc' = "done"
    /\ exit_code' = Cardinality({j \in DOMAIN jobs : jobs[j].status # 0})
    /\ UNCHANGED <<input, fs, arg1, arg2, zcat, pipe, jobs, awkvars>>

\* the script is started again, with the same $1 and $2, after a run that
\* succeeded; first_out keeps the lines the first run left in $2
Rerun ==
    /\ pc = "done"
    /\ zcat = "ok"
    /\ exit_code = 0
    /\ run = 1
    /\ run' = 2
    /\ first_out' = fs[arg2].lines
    /\ pc' = "echo"
    /\ zcat' = "idle"
    /\ pipe' = <<>>
    /\ jobs' = <<>>
    /\ UNCHANGED <<input, fs, arg1, arg2, exit_code, events, n, NR, stdout, apc, forin>>

(***************************************************************************)
(* The awk program.                                                        *)
(***************************************************************************)
\* function add_event(array, n, time, type, link_id, vehicle)
add_event(array, k, time, type, link_id, vehicle) ==
    (k :> [time |-> time, type |-> type, link_id |-> link_id, vehicle |-> vehicle]) @@ array

\* /"entered link"/ {add_event(events, n, $2, $4, $6, $8) ; n++}
\* on the state <<events, n>>
EnteredRule(st, line) ==
    IF Matches(line, EnteredPattern)
    THEN <<add_event(st[1], st[2], Field(line, 2), Field(line, 4), Field(line, 6), Field(line, 8)),
           st[2] + 1>>
    ELSE st

\* /"left link"/ {add_event(events, n, $2, $4, $6, $8) ; n++}
LeftRule(st, line) ==
    IF Matches(line, LeftPattern)
    THEN <<add_event(st[1], st[2], Field(line, 2), Field(line, 4), Field(line, 6), Field(line, 8)),
           st[2] + 1>>
    ELSE st

\* every walk of the keys, whatever was seen before
AnyOrder(keys, seen) == Permutations(keys)

\* for (event in events): awk leaves the order of the walk to the
\* implementation.  Any order is possible; one build walks the same array in
\* the same order every time (seen is the walk this build made before).
ForIn(keys, seen) ==
    IF seen # <<>> /\ Range(seen) = keys THEN {seen} ELSE Permutations(keys)

\* printf "%f,%s,%d,%d\n", events[event]["time"], events[event]["type"], ...
EventRow(e) == FormatRow(e.time, e.type, e.link_id, e.vehicle)

\* one record through both pattern rules, in program order
AwkRecord ==
    /\ apc = "main"
    /\ NR < Len(input)
    /\ LET line == input[NR + 1]
           st   == LeftRule(EnteredRule(<<events, n>>, line), line)
       IN  events' = st[1] /\ n' = st[2]
    /\ NR' = NR + 1
    /\ UNCHANGED <<input, shvars, stdout, apc, run, first_out, forin>>

\* END: the header, then one row per element of events in the order of the walk
AwkEnd ==
    /\ apc = "main"
    /\ NR = Len(input)
    /\ \E order \in ForIn(DOMAIN events, forin) :
          /\ stdout' = <<Header>> \o [i \in 1..Cardinality(DOMAIN events) |-> EventRow(events[order[i]])]
          /\ forin' = order
    /\ apc' = "done"
    /\ UNCHANGED <<input, shvars, events, n, NR, run, first_out>>

\* the program is run again on the same input: a new process, BEGIN anew
AwkRerun ==
    /\ apc = "done"
    /\ run = 1
    /\ first_out' = stdout
    /\ run' = 2
    /\ events' = <<>>
    /\ n' = 1
    /\ NR' = 0
    /\ stdout' = <<>>
    /\ apc' = "main"
    /\ UNCHANGED <<input, shvars, forin>>

AwkIdle ==
    /\ events = <<>>
    /\ n = 1
    /\ NR = 0
    /\ stdout = <<>>
    /\ apc = "idle"
    /\ run = 1
    /\ first_out = <<>>
    /\ forin = <<>>

ShIdle ==
    /\ arg1 = InPath
    /\ arg2 = OutPath
    /\ fs = [p \in Paths |-> NoFile(TRUE)]
    /\ pc = "idle"
    /\ zcat = "idle"
    /\ pipe = <<>>
    /\ jobs = <<>>
    /\ exit_code = 0

\* the script is started with $1 and $2
Init ==
    /\ input \in Inputs
    /\ arg1 = InPath
    /\ arg2 \in Paths
    /\ \E f \in InFiles(input), g \in OutFiles : fs = [p \in Paths |-> IF p = InPath THEN f ELSE g]
    /\ pc = "echo"
    /\ zcat = "idle"
    /\ pipe = <<>>
    /\ jobs = <<>>
    /\ exit_code = 0
    /\ AwkIdle

Next ==
    \/ Echo
    \/ Zcat
    \/ \E k \in 1..MaxLines : Dispatch(k)
    \/ \E j \in 1..MaxLines : RunJob(j)
    \/ \E j \in 1..MaxLines : EmitJob(j)
    \/ \E j \in 1..MaxLines : EmitRest(j)
    \/ Finish
    \/ Rerun

Spec == Init /\ [][Next]_vars

\* the awk program after BEGIN: RS, FS set, events empty, n = 1
InitAwk ==
    /\ input \in Inputs
    /\ ShIdle
    /\ events = <<>>
    /\ n = 1
    /\ NR = 0
    /\ stdout = <<>>
    /\ apc = "main"
    /\ run = 1
    /\ first_out = <<>>
    /\ forin = <<>>

NextAwk == AwkRecord \/ AwkEnd \/ AwkRerun

SpecAwk == InitAwk /\ [][NextAwk]_vars

(***************************************************************************)
(* Properties.                                                             *)
(***************************************************************************)
OutLines == fs[arg2].lines

DataRows(lines) == IF lines = <<>> THEN <<>> ELSE Tail(lines)

RowsOf(lines) == [i \in DOMAIN lines |-> RowOf(lines[i])]

TypeAllowed(line) == Field(line, 4) \in AllowList

LongEnough(line) == NF(line) >= 8

RuleMatches(line) == Matches(line, EnteredPattern) \/ Matches(line, LeftPattern)

\* the pipeline ran to its end on an input it could decompress
PipelineRan == pc = "done" /\ zcat = "ok"

\* the header was written by this run
HeaderWritten == pc = "pipe" \/ (pc = "done" /\ zcat # "idle")

\* C1: every data row of the output file comes from an input line whose
\* type field (field 4) is exactly "entered link" or "left link".
C1_OnlyAllowListedTypes ==
    PipelineRan => SubBag(DataRows(OutLines), RowsOf(SelectSeq(input, TypeAllowed)))

\* C2: every input line whose type field is in the allow-list has its row in
\* the output file written by the pipeline.
C2_EveryAllowListedLineHasRow ==
    PipelineRan => SubBag(RowsOf(SelectSeq(input, TypeAllowed)), DataRows(OutLines))

\* C3: the awk program prints at most as many data rows as there are input
\* lines, exactly as many when and only when every line matches, and no line
\* gives rise to more than one stored event.
C3_RowsAtMostLines ==
    /\ n - 1 <= NR
    /\ apc = "done" =>
          /\ Len(DataRows(stdout)) <= Len(input)
          /\ Len(DataRows(stdout)) = Len(input) <=> \A i \in DOMAIN input : RuleMatches(input[i])

\* C4: once the pipeline has written the header, the output file starts with
\* the header, every later line is a data row and not the header, and no job
\* of parallel prints the header.
C4_HeaderOnceFirst ==
    HeaderWritten =>
        /\ OutLines # <<>>
        /\ OutLines[1] = Header
        /\ LET rows == Range(RowsOf(input))
           IN  \A i \in 2..Len(OutLines) : OutLines[i] # Header /\ OutLines[i] \in rows
        /\ \A j \in DOMAIN jobs : Header \notin Range(jobs[j].out)

C4_Witness ==
    /\ pc = "done"
    /\ Len(jobs) >= 2
    /\ Len(OutLines) >= 3

\* C5: a line with fewer than eight quote-separated fields produces no
\* output row and does not abort the run.
C5_ShortLinesSkipped ==
    PipelineRan =>
        /\ exit_code = 0
        /\ SubBag(DataRows(OutLines), RowsOf(SelectSeq(input, LongEnough)))

\* the rows of one line, one per pattern rule that matches it
AwkRowsOf(line) ==
    (IF Matches(line, EnteredPattern) THEN <<RowOf(line)>> ELSE <<>>)
        \o (IF Matches(line, LeftPattern) THEN <<RowOf(line)>> ELSE <<>>)

RECURSIVE InOrderRows(_)
InOrderRows(lines) ==
    IF lines = <<>> THEN <<>> ELSE AwkRowsOf(Head(lines)) \o InOrderRows(Tail(lines))

\* C6: the awk program prints its data rows in the order of the input lines
\* they were extracted from.
C6_InputOrderPreserved ==
    apc = "done" => DataRows(stdout) = InOrderRows(input)

\* C7: whatever the split of the input into chunks and the order in which the
\* jobs' outputs are appended, the data rows of the output file are, as a
\* multiset, those of the input processed as one chunk.
C7_PartitionInvariance ==
    PipelineRan => SameBag(DataRows(OutLines), InlineAwk(input))

C7_Witness ==
    /\ PipelineRan
    /\ Len(jobs) = 2
    /\ Len(DataRows(OutLines)) = 2
    /\ DataRows(OutLines) # InlineAwk(input)

C9_ExitCodeReportsFailure ==
    (pc = "done" /\ arg1 # arg2) =>
        (exit_code # 0 <=> (zcat = "failed" \/ ~fs[arg2].w))

\* C10: no step changes a file other than the one $2 names, and no step
\* changes the event log $1 names, also when $2 names it too.
C10_InputUnchanged ==
    [][/\ \A p \in Paths \ {arg2} : fs'[p] = fs[p]
       /\ fs[arg1].kind = "gzip" => fs'[arg1] = fs[arg1]]_vars

NoLineMatchesBoth ==
    \A i \in DOMAIN input :
        ~(Matches(input[i], EnteredPattern) /\ Matches(input[i], LeftPattern))

\* events stored and not yet printed
Retained == IF apc = "done" THEN 0 ELSE Cardinality(DOMAIN events)

\* C12: the awk program never holds more than one event that it has not yet
\* printed (stated for logs in which no line matches both rules, which keeps
\* the run clear of the doubled event of C3).
C12_EventsTransient ==
    NoLineMatchesBoth => Retained <= 1

\* the rows printed by all the jobs
RECURSIVE AllJobRows(_)
AllJobRows(js) == IF js = <<>> THEN <<>> ELSE Head(js).out \o AllJobRows(Tail(js))

\* C13: under every interleaving of the jobs and of the writes that copy
\* their outputs, each line of the output file after the header is a whole
\* row printed by one job, and at the end the file holds the jobs' rows, each
\* once, with no unfinished line.
C13_WritesSerializedPerLine ==
    HeaderWritten =>
        /\ \A i \in 2..Len(OutLines) :
              \E j \in DOMAIN jobs : \E k \in DOMAIN jobs[j].out : OutLines[i] = jobs[j].out[k]
        /\ pc = "done" =>
              /\ fs[arg2].part = ""
              /\ SameBag(DataRows(OutLines), AllJobRows(jobs))

\* a job's output is half copied, ending inside a row, while another job
\* with output of its own has finished and waits
C13_Witness ==
    \E j \in DOMAIN jobs : \E i \in DOMAIN jobs :
        /\ jobs[j].st = "emitting"
        /\ fs[arg2].part # ""
        /\ jobs[i].st = "ran"
        /\ jobs[i].out # <<>>

\* C14: after a successful run the output file holds the header and the rows
\* of the input and nothing else, whatever it held before; after a second
\* run to the same path it holds the same lines, as a multiset, as after the
\* first.
C14_OutputDependsOnInputOnly ==
    (PipelineRan /\ exit_code = 0) =>
        /\ SameBag(OutLines, <<Header>> \o InlineAwk(input))
        /\ run = 2 => SameBag(OutLines, first_out)

C14_Witness ==
    /\ PipelineRan
    /\ exit_code = 0
    /\ run = 2
    /\ Len(OutLines) = 3
    /\ OutLines # first_out

=============================================================================
